---- MODULE Spec2Model ----
(***************************************************************************)
(* Model of the rusoto service code generator                              *)
(* (service_crategen/src/commands/generate/codegen/mod.rs).                *)
(*                                                                         *)
(* A run of generate_source over one immutable Service Definition is a     *)
(* state machine: the dispatch on the protocol tag, then the writes of     *)
(* generate() in order, each of which may return a write error, and the    *)
(* loop of generate_types over the BTreeSet of reachable shape names.      *)
(* Text is modelled as text: names and rendered types are strings, and     *)
(* the conversions (capitalize_first, replace, to_snake_case, format!)     *)
(* are computed character by character.                                    *)
(***************************************************************************)
EXTENDS Integers, Sequences, FiniteSets, TLC

\* ------------------------------------------------------------------ bounds

\* Largest number of members of one structure the schema marks required.
MaxRequired == 2
\* Largest number of members of one structure flagged streaming.
MaxStreaming == 1

\* ------------------------------------------------------------------- text

\* Option<String>::None of a shape reference.
None == ""

LowerChars == "abcdefghijklmnopqrstuvwxyz"
UpperChars == "ABCDEFGHIJKLMNOPQRSTUVWXYZ"
\* The characters of the model's names in byte order (String's Ord).
ByteOrder == " 0123456789ABCDEFGHIJKLMNOPQRSTUVWXYZ_abcdefghijklmnopqrstuvwxyz"

CharAt(s, i) == SubSeq(s, i, i)

\* The place of the first c in s, 0 when there is none (str::find).
RECURSIVE IndexFrom(_, _, _)
IndexFrom(c, s, i) ==
  IF i > Len(s) THEN 0
  ELSE IF CharAt(s, i) = c THEN i
  ELSE IndexFrom(c, s, i + 1)

IndexOf(c, s) == IndexFrom(c, s, 1)

UpperSet == {CharAt(UpperChars, i) : i \in 1..Len(UpperChars)}
LowerSet == {CharAt(LowerChars, i) : i \in 1..Len(LowerChars)}
UpperOf == [c \in LowerSet |-> CharAt(UpperChars, IndexOf(c, LowerChars))]
LowerOf == [c \in UpperSet |-> CharAt(LowerChars, IndexOf(c, UpperChars))]
ByteRank ==
  [c \in {CharAt(ByteOrder, i) : i \in 1..Len(ByteOrder)} |-> IndexOf(c, ByteOrder)]

char_is_uppercase(c) == c \in UpperSet
char_is_lowercase(c) == c \in LowerSet
char_is_seperator(c) == c \in {"_", "-", " "}

to_uppercase(c) == IF char_is_lowercase(c) THEN UpperOf[c] ELSE c

to_lowercase(c) == IF char_is_uppercase(c) THEN LowerOf[c] ELSE c

StartsWith(s, p) == Len(p) <= Len(s) /\ SubSeq(s, 1, Len(p)) = p

EndsWith(s, p) == Len(p) <= Len(s) /\ SubSeq(s, Len(s) - Len(p) + 1, Len(s)) = p

Contains(s, p) ==
  \E i \in 1..(Len(s) - Len(p) + 1) : SubSeq(s, i, i + Len(p) - 1) = p

\* s without its first n characters / its last n characters.
DropFirst(s, n) == SubSeq(s, n + 1, Len(s))
DropLast(s, n) == SubSeq(s, 1, Len(s) - n)

\* a < b in String's ordering (byte-wise lexicographic), the order of BTreeSet
\* and BTreeMap keys.
RECURSIVE StrLess(_, _)
StrLess(a, b) ==
  IF b = "" THEN FALSE
  ELSE IF a = "" THEN TRUE
  ELSE IF Head(a) = Head(b) THEN StrLess(Tail(a), Tail(b))
  ELSE ByteRank[Head(a)] < ByteRank[Head(b)]

\* The keys of a BTreeMap / the elements of a BTreeSet in iteration order.
RECURSIVE BTreeOrder(_)
BTreeOrder(S) ==
  IF S = {} THEN <<>>
  ELSE LET m == CHOOSE x \in S : \A y \in S \ {x} : StrLess(x, y)
       IN <<m>> \o BTreeOrder(S \ {m})

SeqToSet(q) == {q[i] : i \in 1..Len(q)}

\* util::capitalize_first: the first character upper-cased.
capitalize_first(s) ==
  IF s = "" THEN "" ELSE to_uppercase(Head(s)) \o Tail(s)

\* str::replace("_", "").
RECURSIVE replace_underscores(_)
replace_underscores(s) ==
  IF s = "" THEN ""
  ELSE IF Head(s) = "_" THEN replace_underscores(Tail(s))
  ELSE Head(s) \o replace_underscores(Tail(s))

\* Inflector's to_snake_case: separators collapse to one "_" (none leading), an
\* upper-case letter next to a lower-case one starts a new word, all lower-cased.
RECURSIVE snake_like(_, _, _, _)
snake_like(s, i, first_character, result) ==
  IF i > Len(s) THEN result
  ELSE LET c == CharAt(s, i)
           next_or_previous_char_is_lowercase ==
             \/ i < Len(s) /\ char_is_lowercase(CharAt(s, i + 1))
             \/ i > 1 /\ char_is_lowercase(CharAt(s, i - 1))
       IN IF char_is_seperator(c)
          THEN IF first_character
               THEN snake_like(s, i + 1, TRUE, result)
               ELSE snake_like(s, i + 1, TRUE, result \o "_")
          ELSE IF ~first_character /\ char_is_uppercase(c)
                  /\ next_or_previous_char_is_lowercase
          THEN snake_like(s, i + 1, FALSE, result \o "_" \o to_lowercase(c))
          ELSE snake_like(s, i + 1, FALSE, result \o to_lowercase(c))

to_snake_case(s) == snake_like(s, 1, TRUE, "")

\* ------------------------------------------------------- Service Definition

\* botocore::ShapeType.
ShapeTypes ==
  {"blob", "boolean", "double", "float", "integer", "long", "string",
   "timestamp", "list", "map", "structure"}

\* botocore::Member: the shape it refers to and its own flags.
Member(shape, streaming, deprecated) ==
  [shape |-> shape, streaming |-> streaming, deprecated |-> deprecated]

\* botocore::Shape. members is the BTreeMap member name -> Member of a
\* structure, required the names the schema lists as required, member / key /
\* value the element references of a list / a map (None when absent).
Shape(shape_type, members, required, member, key, value, exception) ==
  [shape_type |-> shape_type, members |-> members, required |-> required,
   member |-> member, key |-> key, value |-> value, exception |-> exception]

NoMembers == [n \in {} |-> Member(None, FALSE, FALSE)]

Primitive(t) == Shape(t, NoMembers, {}, None, None, None, FALSE)
ListOf(e) == Shape("list", NoMembers, {}, e, None, None, FALSE)
MapOf(k, v) == Shape("map", NoMembers, {}, None, k, v, FALSE)
Structure(members, required) ==
  Shape("structure", members, required, None, None, None, FALSE)
ExceptionStructure(members, required) ==
  Shape("structure", members, required, None, None, None, TRUE)

\* botocore::Operation.
Operation(input, output, errors) ==
  [input |-> input, output |-> output, errors |-> errors]

\* Service::get_shape: whether the name resolves, and the shape it resolves to.
has_shape(service, name) == name \in DOMAIN service.shapes
get_shape(service, name) == service.shapes[name]

\* Shape::required(member_name).
required(shape, member_name) == member_name \in shape.required

\* ------------------------------------------------------- ProtocolGenerator

\* generate_source's match on the protocol tag: the generator pair, or none
\* (the panic! arm).
KnownProtocols == {"json", "query", "ec2", "rest-json", "rest-xml"}

protocol_generator(protocol) ==
  CASE protocol = "json" -> "JsonGenerator"
    [] protocol \in {"query", "ec2"} -> "QueryGenerator"
    [] protocol = "rest-json" -> "RestJsonGenerator"
    [] protocol = "rest-xml" -> "RestXmlGenerator"
    [] OTHER -> None

error_type_generator(protocol) ==
  CASE protocol = "json" -> "JsonErrorTypes"
    [] protocol \in {"query", "ec2"} -> "XmlErrorTypes"
    [] protocol = "rest-json" -> "RestJsonErrorTypes"
    [] protocol = "rest-xml" -> "XmlErrorTypes"
    [] OTHER -> None

\* GenerateProtocol::serialize_trait / deserialize_trait: the JSON families
\* derive serde's traits, the XML families return None (the trait's default).
serialize_trait(P) ==
  IF P \in {"JsonGenerator", "RestJsonGenerator"} THEN "Serialize" ELSE None

deserialize_trait(P) ==
  IF P \in {"JsonGenerator", "RestJsonGenerator"} THEN "Deserialize" ELSE None

\* GenerateProtocol::generate_serializer / generate_deserializer: hand-written
\* text where no trait is derived, None otherwise.
generate_serializer(P, name) ==
  IF serialize_trait(P) = None THEN "struct " \o name \o "Serializer;" ELSE None

generate_deserializer(P, name) ==
  IF deserialize_trait(P) = None THEN "struct " \o name \o "Deserializer;" ELSE None

\* GenerateProtocol::timestamp_type.
timestamp_type(P) ==
  IF P \in {"JsonGenerator", "RestJsonGenerator"} THEN "f64" ELSE "String"

\* ------------------------------------------------------------------- names

\* A generate_field_name that escapes nothing.
generate_field_name_unescaped(member_name) == to_snake_case(member_name)

\* generate_field_name: snake case, reserved words escaped with a trailing "_".
generate_field_name(member_name) ==
  LET name == to_snake_case(member_name)
  IN IF name = "return" \/ name = "type" \/ name = "match"
     THEN name \o "_"
     ELSE name

\* mutate_type_name: capitalized, underscores removed, then the override table.
mutate_type_name(service, type_name) ==
  LET capitalized == capitalize_first(type_name)
      without_underscores == replace_underscores(capitalized)
  IN CASE without_underscores = "Error" -> service.service_type_name \o "Error"
       [] without_underscores = "CancelSpotFleetRequests" -> "EC2CancelSpotFleetRequests"
       [] without_underscores = "BatchStopJobRun" -> "GlueBatchStopJobRun"
       [] without_underscores = "Option" -> "RDSOption"
       [] without_underscores = "BatchDeleteImportDataError" ->
            "DiscoveryBatchDeleteImportDataError"
       [] without_underscores = "CreateFleetError" -> "EC2CreateFleetError"
       [] without_underscores = "BatchDescribeMergeConflictsError" ->
            "CodeCommitBatchDescribeMergeConflictsError"
       [] without_underscores = "BatchGetCommitsError" -> "CodeCommitBatchGetCommitsError"
       [] OTHER -> without_underscores

mutate_type_name_for_streaming(type_name) == "Streaming" \o type_name

\* get_rust_type: the host type of a shape, or the byte-stream alias when the
\* caller says streaming. host_type is its `if !streaming` arm, the match on
\* the shape's kind, whose recursive calls pass streaming = false.
RECURSIVE get_rust_type(_, _, _, _, _)
host_type(service, shape_name, shape, for_timestamps) ==
  CASE shape.shape_type = "blob" -> "bytes::Bytes"
    [] shape.shape_type = "boolean" -> "bool"
    [] shape.shape_type = "double" -> "f64"
    [] shape.shape_type = "float" -> "f32"
    [] shape.shape_type \in {"integer", "long"} -> "i64"
    [] shape.shape_type = "string" -> "String"
    [] shape.shape_type = "timestamp" -> for_timestamps
    [] shape.shape_type = "list" ->
         "Vec<"
         \o get_rust_type(service, shape.member,
                          get_shape(service, shape.member), FALSE, for_timestamps)
         \o ">"
    [] shape.shape_type = "map" ->
         "::std::collections::HashMap<"
         \o get_rust_type(service, shape.key,
                          get_shape(service, shape.key), FALSE, for_timestamps)
         \o ", "
         \o get_rust_type(service, shape.value,
                          get_shape(service, shape.value), FALSE, for_timestamps)
         \o ">"
    [] shape.shape_type = "structure" -> mutate_type_name(service, shape_name)

\* A get_rust_type that honours the streaming flag for blob shapes only.
get_rust_type_blobs_only(service, shape_name, shape, streaming, for_timestamps) ==
  IF streaming /\ shape.shape_type = "blob"
  THEN mutate_type_name_for_streaming(shape_name)
  ELSE host_type(service, shape_name, shape, for_timestamps)

get_rust_type(service, shape_name, shape, streaming, for_timestamps) ==
  IF ~streaming
  THEN host_type(service, shape_name, shape, for_timestamps)
  ELSE mutate_type_name_for_streaming(shape_name)

\* streaming_members: the members of a shape whose own streaming flag is set.
streaming_members(shape) ==
  {m \in DOMAIN shape.members : shape.members[m].streaming}

\* is_streaming_shape: some member of some shape of the service is flagged
\* streaming and refers to the name.
is_streaming_shape(service, name) ==
  \E s \in DOMAIN service.shapes :
    \E m \in streaming_members(service.shapes[s]) :
      service.shapes[s].members[m].shape = name

\* ------------------------------------------------------------ StructBuilder

SerdeBlob ==
  "#[serde(deserialize_with=\"::rusoto_core::serialization::SerdeBlob::deserialize_blob\", serialize_with=\"::rusoto_core::serialization::SerdeBlob::serialize_blob\", default,)]"

SerdeBlobList ==
  "#[serde(deserialize_with=\"::rusoto_core::serialization::SerdeBlobList::deserialize_blob_list\", serialize_with=\"::rusoto_core::serialization::SerdeBlobList::serialize_blob_list\", default,)]"

SerdeSkip == "#[serde(skip_serializing_if=\"Option::is_none\")]"

\* The serde lines of one member (the `if serde_attrs` block): the rename with
\* the member's own name, the blob hooks, the omit-when-absent line.
serde_lines(service, shape, member_name, member) ==
  <<"#[serde(rename=\"" \o member_name \o "\")]">>
  \o (IF has_shape(service, member.shape)
      THEN LET member_shape == get_shape(service, member.shape)
           IN IF member_shape.shape_type = "blob" THEN <<SerdeBlob>>
              ELSE IF /\ member_shape.shape_type = "list"
                      /\ member_shape.member # None
                      /\ has_shape(service, member_shape.member)
                      /\ get_shape(service, member_shape.member).shape_type = "blob"
              THEN <<SerdeBlobList>>
              ELSE <<>>
      ELSE <<>>)
  \o (IF ~required(shape, member_name) THEN <<SerdeSkip>> ELSE <<>>)

\* A field_declaration that boxes the self-referential member the wrong way
\* round: around the Option when required, directly when not.
field_declaration_boxes_swapped(service, shape, shape_name, member_name, rs_type) ==
  LET name == generate_field_name(member_name)
  IN IF shape_name = rs_type
     THEN IF required(shape, member_name)
          THEN "pub " \o name \o ": Box<Option<" \o rs_type \o ">>,"
          ELSE "pub " \o name \o ": Box<" \o rs_type \o ">,"
     ELSE IF required(shape, member_name)
          THEN "pub " \o name \o ": " \o rs_type \o ","
          ELSE "pub " \o name \o ": Option<" \o rs_type \o ">,"

\* The declaration line of one member: boxed when its type is the enclosing
\* struct's name, else the two overrides, else by the schema's required flag.
field_declaration(service, shape, shape_name, member_name, rs_type) ==
  LET name == generate_field_name(member_name)
  IN IF shape_name = rs_type
     THEN IF required(shape, member_name)
          THEN "pub " \o name \o ": Box<" \o rs_type \o ">,"
          ELSE IF name = "type"
          THEN "pub aws_" \o name \o ": Box<Option<" \o rs_type \o ">>,"
          ELSE "pub " \o name \o ": Box<Option<" \o rs_type \o ">>,"
     ELSE IF \/ /\ service.name = "CodePipeline"
                /\ shape_name = "ActionRevision"
                /\ name = "revision_change_id"
             \/ name = "created"
          THEN "pub " \o name \o ": Option<" \o rs_type \o ">,"
          ELSE IF /\ service.name = "Amazon Lex Runtime Service"
                  /\ shape_name = "PostTextResponse"
                  /\ name = "slots"
          THEN "pub " \o name
               \o ": Option<::std::collections::HashMap<String, Option<String>>>,"
          ELSE IF required(shape, member_name)
          THEN "pub " \o name \o ": " \o rs_type \o ","
          ELSE IF name = "type"
          THEN "pub aws_" \o name \o ": Option<" \o rs_type \o ">,"
          ELSE "pub " \o name \o ": Option<" \o rs_type \o ">,"

\* One member's lines in generate_struct_fields (documentation lines, which
\* carry no decision, are left out).
struct_field(service, shape, shape_name, serde_attrs, P, member_name) ==
  LET member == shape.members[member_name]
      member_shape == get_shape(service, member.shape)
      rs_type == get_rust_type(service, member.shape, member_shape,
                               member.streaming, timestamp_type(P))
  IN [member |-> member_name,
      lines |-> (IF serde_attrs
                 THEN serde_lines(service, shape, member_name, member)
                 ELSE <<>>)
                \o <<field_declaration(service, shape, shape_name, member_name, rs_type)>>]

\* The members generate_struct_fields renders: the non-deprecated ones, in the
\* BTreeMap's key order.
rendered_members(shape) ==
  SelectSeq(BTreeOrder(DOMAIN shape.members),
            LAMBDA m : ~shape.members[m].deprecated)

\* service.shape_for_member(member).unwrap() fails for some rendered member.
struct_fields_panic(service, shape) ==
  \E m \in SeqToSet(rendered_members(shape)) :
    ~has_shape(service, shape.members[m].shape)

generate_struct_fields(service, shape, shape_name, serde_attrs, P) ==
  LET ms == rendered_members(shape)
  IN [i \in 1..Len(ms) |->
        struct_field(service, shape, shape_name, serde_attrs, P, ms[i])]

\* generate_struct: the derive list and the fields of one struct.
generate_struct(service, name, shape, streaming, serialized, deserialized, P) ==
  LET derived ==
        <<"Default", "Debug">>
        \o (IF ~streaming /\ streaming_members(shape) = {}
            THEN <<"Clone", "PartialEq">> ELSE <<>>)
        \o (IF serialized /\ serialize_trait(P) # None
            THEN <<serialize_trait(P)>> ELSE <<>>)
        \o (IF deserialized /\ deserialize_trait(P) # None
            THEN <<deserialize_trait(P)>> ELSE <<>>)
      need_serde_attrs ==
        \E i \in 1..Len(derived) : derived[i] \in {"Serialize", "Deserialize"}
  IN [derived |-> derived,
      test_attributes |->
        /\ \E i \in 1..Len(derived) : derived[i] = "Deserialize"
        /\ ~\E i \in 1..Len(derived) : derived[i] = "Serialize",
      fields |-> IF DOMAIN shape.members = {}
                 THEN <<>>
                 ELSE generate_struct_fields(service, shape, name, need_serde_attrs, P)]

\* ------------------------------------------------------ Reachability Resolver

\* The shapes a shape refers to, in the order Service::visit_shapes descends:
\* its members (BTreeMap order), its list element, its map key and value.
shape_refs(shape) ==
  LET ms == BTreeOrder(DOMAIN shape.members)
  IN [i \in 1..Len(ms) |-> shape.members[ms[i]].shape]
     \o (IF shape.member # None THEN <<shape.member>> ELSE <<>>)
     \o (IF shape.key # None THEN <<shape.key>> ELSE <<>>)
     \o (IF shape.value # None THEN <<shape.value>> ELSE <<>>)

\* Service::visit_shapes over a stack of names still to visit: a name that
\* does not resolve is fatal (ok = FALSE); the visitor, BTreeSet::insert,
\* returns false on a name already seen, which ends the descent there. seen
\* keeps the names in insertion order.
RECURSIVE visit_shapes(_, _, _)
visit_shapes(service, stack, seen) ==
  IF stack = <<>> THEN [ok |-> TRUE, seen |-> seen]
  ELSE LET shape_name == Head(stack)
       IN IF ~has_shape(service, shape_name) THEN [ok |-> FALSE, seen |-> seen]
          ELSE IF shape_name \in SeqToSet(seen)
          THEN visit_shapes(service, Tail(stack), seen)
          ELSE visit_shapes(service,
                            shape_refs(get_shape(service, shape_name)) \o Tail(stack),
                            Append(seen, shape_name))

\* Seeds that leave the declared errors out.
operation_seeds_without_errors(operation) ==
  (IF operation.input # None THEN <<operation.input>> ELSE <<>>)
  \o (IF operation.output # None THEN <<operation.output>> ELSE <<>>)

\* The names one operation seeds the traversal with: input, output, errors.
operation_seeds(operation) ==
  (IF operation.input # None THEN <<operation.input>> ELSE <<>>)
  \o (IF operation.output # None THEN <<operation.output>> ELSE <<>>)
  \o operation.errors

RECURSIVE Flatten(_)
Flatten(qq) == IF qq = <<>> THEN <<>> ELSE Head(qq) \o Flatten(Tail(qq))

\* The operations in service.operations().values() order.
operations_in_order(service) ==
  LET ns == BTreeOrder(DOMAIN service.operations)
  IN [i \in 1..Len(ns) |-> service.operations[ns[i]]]

\* find_shapes_to_generate: every operation's seeds visited into one set.
find_shapes_to_generate(service) ==
  LET ops == operations_in_order(service)
  IN visit_shapes(service,
                  Flatten([i \in 1..Len(ops) |-> operation_seeds(ops[i])]),
                  <<>>)

\* Iterating a Vec the names were pushed to: the insertion order.
shapes_to_generate_iter_insertion_order(inserted) == inserted

\* Iterating the BTreeSet the names were inserted into: sorted, each once.
shapes_to_generate_iter(inserted) == BTreeOrder(SeqToSet(inserted))

\* type_filter::filter_types: the generated names of the shapes reachable from
\* the operations' inputs (serialized) and outputs (deserialized).
filter_types(service) ==
  LET ops == operations_in_order(service)
      ins == visit_shapes(service,
               Flatten([i \in 1..Len(ops) |->
                 IF ops[i].input # None THEN <<ops[i].input>> ELSE <<>>]), <<>>)
      outs == visit_shapes(service,
               Flatten([i \in 1..Len(ops) |->
                 IF ops[i].output # None THEN <<ops[i].output>> ELSE <<>>]), <<>>)
  IN [ok |-> ins.ok /\ outs.ok,
      serialized |-> {mutate_type_name(service, n) : n \in SeqToSet(ins.seen)},
      deserialized |-> {mutate_type_name(service, n) : n \in SeqToSet(outs.seen)}]

\* ------------------------------------------------------------------ writer

\* One piece of text handed to the writer: its section, and for the type
\* definitions what it is (struct, alias, deserializer, serializer), the shape
\* it was generated for, the name it defines, the derive list and the fields.
Item(sec, kind, shape, name, derived, fields) ==
  [sec |-> sec, kind |-> kind, shape |-> shape, name |-> name,
   derived |-> derived, fields |-> fields]

SectionItem(sec) == Item(sec, "", "", "", <<>>, <<>>)

\* One iteration of generate_types' loop skips the shape.
type_skipped(service, name) ==
  get_shape(service, name).exception /\ service.name # "Kinesis"

\* One iteration of generate_types' loop panics in generate_struct_fields.
type_panics(service, name) ==
  LET shape == get_shape(service, name)
  IN /\ ~type_skipped(service, name)
     /\ shape.shape_type = "structure"
     /\ mutate_type_name(service, name) # "String"
     /\ struct_fields_panic(service, shape)

\* The writes of one iteration of generate_types' loop, in order: the struct,
\* the streaming alias, the deserializer, the serializer.
type_items(service, name, P) ==
  LET shape == get_shape(service, name)
      type_name == mutate_type_name(service, name)
      streaming == is_streaming_shape(service, name)
      filtered == filter_types(service)
      deserialized == type_name \in filtered.deserialized
      serialized == type_name \in filtered.serialized
      generated == generate_struct(service, type_name, shape, streaming,
                                   serialized, deserialized, P)
  IN IF type_skipped(service, name) THEN <<>>
     ELSE (IF shape.shape_type = "structure" /\ type_name # "String"
           THEN <<Item("types", "struct", name, type_name,
                       generated.derived, generated.fields)>>
           ELSE <<>>)
          \o (IF streaming
              THEN <<Item("types", "alias", name,
                          mutate_type_name_for_streaming(type_name), <<>>, <<>>)>>
              ELSE <<>>)
          \o (IF deserialized /\ generate_deserializer(P, type_name) # None
              THEN <<Item("types", "deserializer", name, type_name, <<>>, <<>>)>>
              ELSE <<>>)
          \o (IF serialized /\ generate_serializer(P, type_name) # None
              THEN <<Item("types", "serializer", name, type_name, <<>>, <<>>)>>
              ELSE <<>>)

\* The steps with the type definitions generated before the prelude.
generate_steps_types_first ==
  <<"preamble", "types", "prelude", "error_types",
    "trait_open", "method_signatures", "trait_close",
    "client_struct", "method_impls", "impl_close", "tests">>

\* The steps of generate and of generate_client in the order of the code; each
\* is one write or one call that writes.
generate_steps ==
  <<"preamble", "prelude", "types", "error_types",
    "trait_open", "method_signatures", "trait_close",
    "client_struct", "method_impls", "impl_close", "tests">>

\* The step after a step, "done" after the last (Ok(())).
step_after(step) ==
  LET i == CHOOSE k \in 1..Len(generate_steps) : generate_steps[k] = step
  IN IF i = Len(generate_steps) THEN "done" ELSE generate_steps[i + 1]

\* ------------------------------------------------ the Service Definitions run

\* The subsets of S of at most n elements.
SubsetsUpTo(S, n) == {T \in SUBSET S : Cardinality(T) <= n}

\* The members of a structure from its member name -> shape name table, with
\* the streaming and deprecated flags of the named members set.
MembersOf(refs, streaming, deprecated) ==
  [m \in DOMAIN refs |-> Member(refs[m], m \in streaming, m \in deprecated)]

Service(id, protocol, shapes, operations) ==
  [name |-> id.name, service_type_name |-> id.service_type_name,
   protocol |-> protocol, shapes |-> shapes, operations |-> operations]

CodePipeline == [name |-> "CodePipeline", service_type_name |-> "CodePipeline"]
LexRuntime ==
  [name |-> "Amazon Lex Runtime Service", service_type_name |-> "LexRuntime"]
Kinesis == [name |-> "Kinesis", service_type_name |-> "Kinesis"]
Widgets == [name |-> "Widgets", service_type_name |-> "Widgets"]

Protocols == KnownProtocols \cup {"soap"}

\* Services whose one operation returns a structure with the members the
\* optionality overrides name, under each of the structure names they name.
FieldRefs ==
  ("created" :> "Timestamp") @@ ("revisionChangeId" :> "String")
  @@ ("slots" :> "StringMap") @@ ("type" :> "String")

FieldServices ==
  { Service(id, protocol,
            (sn :> Structure(MembersOf(FieldRefs, strm, {}), req))
            @@ ("String" :> Primitive("string"))
            @@ ("Timestamp" :> Primitive("timestamp"))
            @@ ("StringMap" :> MapOf("String", "String"))
            @@ ("Unused" :> Structure(MembersOf("note" :> "String", {}, {}), {})),
            "GetRevision" :> Operation(None, sn, <<>>)) :
      id \in {CodePipeline, LexRuntime, Widgets},
      protocol \in {"json"},
      sn \in {"ActionRevision", "PostTextResponse", "Widget"},
      req \in SubsetsUpTo(DOMAIN FieldRefs, MaxRequired),
      strm \in SubsetsUpTo({"created", "slots", "type"}, MaxStreaming) }

\* Services with recursive structures: Node contains itself directly (also
\* under a member named type, and through a list), Left and Right contain each
\* other, and StreamingNode holds a Node that may be flagged streaming.
NodeRefs ==
  ("children" :> "NodeList") @@ ("legacy" :> "Node") @@ ("next" :> "Node")
  @@ ("payload" :> "Blob") @@ ("type" :> "Node")

RecursiveServices ==
  { Service(Widgets, protocol,
            ("Node" :> Structure(MembersOf(NodeRefs, strm, {"legacy"}), req))
            @@ ("NodeList" :> ListOf("Node"))
            @@ ("Blob" :> Primitive("blob"))
            @@ ("Left" :> Structure(MembersOf("right" :> "Right", {}, {}), req))
            @@ ("Right" :> Structure(MembersOf(("left" :> "Left") @@ ("lefts" :> "LeftList"),
                                               {}, {}), req))
            @@ ("LeftList" :> ListOf("Left"))
            @@ ("StreamingNode" :> Structure(MembersOf(("body" :> "Node") @@ ("next" :> "StreamingNode"),
                                                       strm, {}), req)),
            ("PutNode" :> Operation("Node", root, <<>>))) :
      protocol \in {"json", "query"},
      root \in {"Left", "StreamingNode"},
      req \in SubsetsUpTo({"type", "next", "right", "body"}, MaxRequired),
      strm \in SubsetsUpTo({"children", "payload", "body"}, MaxStreaming) }

\* Services whose shape names meet mutate_type_name's rules: an override's
\* input and its output, names differing by an underscore or the first
\* letter's case, and the Error shape.
NamedShapes ==
  {"Option", "RDSOption", "Foo_Bar", "FooBar", "fooBar", "Error", "WidgetsError", "Plain"}

NameServices ==
  { Service(id, protocol,
            [n \in NamedShapes |-> Structure(MembersOf("value" :> "Text", {}, {}), {})]
            @@ ("Text" :> Primitive("string")),
            ("Describe" :> Operation(input, output, <<>>))) :
      id \in {Widgets},
      protocol \in {"json", "rest-xml"},
      input \in NamedShapes \cup {None},
      output \in NamedShapes \cup {None} }

\* Services with reachable and unreachable shapes, an exception shape and a
\* shape only it refers to, a structure named String, and a member whose
\* shape is not defined, under every protocol tag.
ReachShapes ==
  ("GetInput" :> Structure(MembersOf("key" :> "Key", {}, {}), {"key"}))
  @@ ("GetOutput" :> Structure(MembersOf(("item" :> "Item") @@ ("items" :> "ItemList")
                                         @@ ("index" :> "ItemMap"), {}, {}), {}))
  @@ ("Item" :> Structure(MembersOf("name" :> "Name", {}, {}), {"name"}))
  @@ ("ItemList" :> ListOf("Item"))
  @@ ("ItemMap" :> MapOf("Key", "Item"))
  @@ ("Key" :> Primitive("string"))
  @@ ("Name" :> Primitive("string"))
  @@ ("NotFound" :> ExceptionStructure(MembersOf(("message" :> "Name") @@ ("detail" :> "Detail"),
                                                 {}, {}), {}))
  @@ ("Detail" :> Structure(MembersOf("code" :> "Count", {}, {}), {}))
  @@ ("Count" :> Primitive("integer"))
  @@ ("String" :> Structure(MembersOf("chars" :> "Name", {}, {}), {}))
  @@ ("Broken" :> Structure(MembersOf("ghost" :> "Ghost", {}, {}), {}))
  @@ ("Unused" :> Structure(MembersOf("items" :> "UnusedList", {}, {}), {}))
  @@ ("UnusedList" :> ListOf("Name"))

ReachServices ==
  { Service(id, protocol, ReachShapes,
            ("Get" :> Operation(input, output, errors))
            @@ (IF second THEN "List" :> Operation(None, "Item", <<>>)
                ELSE [n \in {} |-> Operation(None, None, <<>>)])) :
      id \in {Widgets, Kinesis},
      protocol \in Protocols,
      input \in {None, "GetInput", "String", "Broken"},
      output \in {None, "GetOutput"},
      errors \in {<<>>, <<"NotFound">>},
      second \in BOOLEAN }

\* Services whose operation takes a structure with a member that may be
\* flagged streaming and refers to a blob, to a blob whose name
\* mutate_type_name rewrites, to the Error structure or to an exception shape.
StreamTargets == {"Payload", "payload_blob", "Error", "Oops"}

StreamServices ==
  { Service(id, protocol,
            ("Upload" :> Structure(MembersOf(("body" :> target) @@ ("copy" :> "Payload"),
                                             strm, {}), req))
            @@ ("Payload" :> Primitive("blob"))
            @@ ("payload_blob" :> Primitive("blob"))
            @@ ("Error" :> Structure(MembersOf("message" :> "Text", {}, {}), {}))
            @@ ("Oops" :> ExceptionStructure(MembersOf("message" :> "Text", {}, {}), {}))
            @@ ("Text" :> Primitive("string")),
            ("PutUpload" :> Operation("Upload", None, <<>>))) :
      id \in {Widgets, Kinesis},
      protocol \in {"json", "rest-xml"},
      target \in StreamTargets,
      req \in SubsetsUpTo({"body"}, MaxRequired),
      strm \in SubsetsUpTo({"body", "copy"}, MaxStreaming) }

ServiceDefinitions ==
  FieldServices \cup RecursiveServices \cup NameServices \cup ReachServices
  \cup StreamServices

\* ---------------------------------------------------------------- the run

VARIABLES
  service,             \* the Service Definition, immutable during the run
  pc,                  \* where generate_source is
  writer,              \* the text written to the writer so far, in order
  shapes_to_generate,  \* the names generate_types' loop has still to visit
  result,              \* None while running, then "Ok", "Err" or "panic"
  \* Two runs of generate_types over the same Service Definition, one after
  \* the other, each visiting the shapes in an order of its own:
  run,                 \* the run under way: 1, 2, then 3 (both over); 0: none
  pending,             \* the names the run's traversal has still to visit
  inserted,            \* the names in the order the run inserted them
  orders,              \* each finished run's insertion order
  emitted              \* each finished run's type definitions, in order

genvars == <<pc, writer, shapes_to_generate, result>>
runvars == <<run, pending, inserted, orders, emitted>>
vars == <<service, genvars, runvars>>

Init ==
  /\ service \in ServiceDefinitions
  /\ pc = "generate_source"
  /\ writer = <<>>
  /\ shapes_to_generate = <<>>
  /\ result = None
  /\ run = 0
  /\ pending = {}
  /\ inserted = <<>>
  /\ orders = <<>>
  /\ emitted = <<>>

P == protocol_generator(service.protocol)

\* A write, or a call that writes, at step `step`: it succeeds, the text is
\* in the writer and generate goes on, or it returns Err and `?` returns it.
WriteStep(step) ==
  /\ pc = step
  /\ \E io \in {"Ok", "Err"} :
       IF io = "Ok"
       THEN /\ writer' = Append(writer, SectionItem(step))
            /\ pc' = step_after(step)
            /\ result' = IF step_after(step) = "done" THEN "Ok" ELSE None
       ELSE /\ writer' = writer
            /\ pc' = "returned"
            /\ result' = "Err"
  /\ UNCHANGED <<service, shapes_to_generate, runvars>>

\* generate_source: the match on the protocol tag.
GenerateSource ==
  /\ pc = "generate_source"
  /\ IF P = None
     THEN pc' = "panicked" /\ result' = "panic"
     ELSE pc' = "preamble" /\ result' = None
  /\ UNCHANGED <<service, writer, shapes_to_generate, runvars>>

\* generate: the writeln! of the fixed preamble.
WritePreamble == WriteStep("preamble")

\* generate: protocol_generator.generate_prelude.
GeneratePrelude == WriteStep("prelude")

\* generate_types up to its loop: filter_types and find_shapes_to_generate,
\* which panic on a shape reference that does not resolve.
FindShapesToGenerate ==
  /\ pc = "types"
  /\ LET found == find_shapes_to_generate(service)
     IN IF ~filter_types(service).ok \/ ~found.ok
        THEN /\ pc' = "panicked"
             /\ result' = "panic"
             /\ shapes_to_generate' = shapes_to_generate
        ELSE /\ pc' = "types_loop"
             /\ result' = None
             /\ shapes_to_generate' = shapes_to_generate_iter(found.seen)
  /\ UNCHANGED <<service, writer, runvars>>

\* generate_types: one iteration of the loop. Its writes happen in order; the
\* first that fails returns Err with the earlier ones written.
GenerateType ==
  /\ pc = "types_loop"
  /\ shapes_to_generate # <<>>
  /\ LET name == Head(shapes_to_generate)
     IN IF type_panics(service, name)
        THEN /\ pc' = "panicked"
             /\ result' = "panic"
             /\ writer' = writer
             /\ shapes_to_generate' = shapes_to_generate
        ELSE LET items == type_items(service, name, P)
             IN \E written \in 0..Len(items) :
                  /\ writer' = writer \o SubSeq(items, 1, written)
                  /\ IF written = Len(items)
                     THEN /\ pc' = pc
                          /\ result' = None
                          /\ shapes_to_generate' = Tail(shapes_to_generate)
                     ELSE /\ pc' = "returned"
                          /\ result' = "Err"
                          /\ shapes_to_generate' = shapes_to_generate
  /\ UNCHANGED <<service, runvars>>

\* generate_types: the loop is over, Ok(()).
TypesGenerated ==
  /\ pc = "types_loop"
  /\ shapes_to_generate = <<>>
  /\ pc' = step_after("types")
  /\ UNCHANGED <<service, writer, shapes_to_generate, result, runvars>>

\* generate: error_type_generator.generate_error_types.
GenerateErrorTypes == WriteStep("error_types")

\* generate_client: the trait's opening.
WriteTraitOpen == WriteStep("trait_open")

\* generate_client: protocol_generator.generate_method_signatures.
GenerateMethodSignatures == WriteStep("method_signatures")

\* generate_client: the trait's closing brace.
WriteTraitClose == WriteStep("trait_close")

\* generate_client: the client struct and the opening of its impl of the trait.
WriteClientStruct == WriteStep("client_struct")

\* generate_client: protocol_generator.generate_method_impls.
GenerateMethodImpls == WriteStep("method_impls")

\* generate_client: the impl's closing brace.
WriteImplClose == WriteStep("impl_close")

\* generate: generate_tests, then Ok(()).
GenerateTests == WriteStep("tests")

Next ==
  \/ GenerateSource
  \/ WritePreamble
  \/ GeneratePrelude
  \/ FindShapesToGenerate
  \/ GenerateType
  \/ TypesGenerated
  \/ GenerateErrorTypes
  \/ WriteTraitOpen
  \/ GenerateMethodSignatures
  \/ WriteTraitClose
  \/ WriteClientStruct
  \/ GenerateMethodImpls
  \/ WriteImplClose
  \/ GenerateTests

Spec == Init /\ [][Next]_vars

\* ------------------------------------------------- two runs, side by side

\* Services for the two runs: shapes reached from several seeds and along
\* several references, so that there is more than one order to visit them in.
TwoRunServices ==
  NameServices
  \cup { sv \in ReachServices :
           /\ sv.protocol \in {"json", "query"}
           /\ DOMAIN sv.operations = {"Get"}
           /\ sv.operations["Get"].output = None }

\* The names every operation seeds the traversal with.
all_seeds(sv) ==
  LET ops == operations_in_order(sv)
  IN SeqToSet(Flatten([i \in 1..Len(ops) |-> operation_seeds(ops[i])]))

InitTwoRuns ==
  /\ service \in TwoRunServices
  /\ pc = "generate_source"
  /\ writer = <<>>
  /\ shapes_to_generate = <<>>
  /\ result = None
  /\ run = 1
  /\ pending = all_seeds(service)
  /\ inserted = <<>>
  /\ orders = <<>>
  /\ emitted = <<>>

\* The type definitions generate_types writes when no write fails: the items
\* of each iteration of its loop over the names, in the loop's order.
types_written(sv, names) ==
  Flatten([i \in 1..Len(names) |-> type_items(sv, names[i], protocol_generator(sv.protocol))])

\* The run is over: its insertion order and what it wrote are kept, and the
\* next run starts from the seeds.
EndRun(order, written) ==
  /\ orders' = Append(orders, order)
  /\ emitted' = Append(emitted, written)
  /\ run' = run + 1
  /\ pending' = all_seeds(service)
  /\ inserted' = <<>>

\* find_shapes_to_generate, one visit: any name still to visit is taken. A
\* name that does not resolve panics; one already in the set ends the descent;
\* a new one is inserted and the shapes it refers to are to visit.
VisitShape ==
  /\ run \in {1, 2}
  /\ \E shape_name \in pending :
       IF ~has_shape(service, shape_name)
       THEN EndRun(inserted, <<SectionItem("panic")>>)
       ELSE /\ pending' = (pending \ {shape_name})
                          \cup (SeqToSet(shape_refs(get_shape(service, shape_name)))
                                \ (SeqToSet(inserted) \cup {shape_name}))
            /\ inserted' = IF shape_name \in SeqToSet(inserted)
                           THEN inserted
                           ELSE Append(inserted, shape_name)
            /\ UNCHANGED <<run, orders, emitted>>
  /\ UNCHANGED <<service, genvars>>

\* generate_types' loop over the BTreeSet the names were inserted into.
GenerateTypes ==
  /\ run \in {1, 2}
  /\ pending = {}
  /\ EndRun(inserted, types_written(service, shapes_to_generate_iter(inserted)))
  /\ UNCHANGED <<service, genvars>>

NextTwoRuns == VisitShape \/ GenerateTypes

SpecTwoRuns == InitTwoRuns /\ [][NextTwoRuns]_vars

\* ------------------------------------------------- reading the written text

\* The structs written so far.
WrittenStructs ==
  {writer[i] : i \in {k \in 1..Len(writer) : writer[k].kind = "struct"}}

FieldsOf(st) == {st.fields[i] : i \in 1..Len(st.fields)}

\* A field's declaration line, `pub <identifier>: <type>,`, and its parts.
FieldDecl(f) == f.lines[Len(f.lines)]
FieldIdent(f) == SubSeq(FieldDecl(f), 5, IndexOf(":", FieldDecl(f)) - 1)
FieldType(f) ==
  SubSeq(FieldDecl(f), IndexOf(":", FieldDecl(f)) + 2, Len(FieldDecl(f)) - 1)

\* The lines of a field before its declaration.
FieldAttrs(f) == SubSeq(f.lines, 1, Len(f.lines) - 1)

IsOption(t) == StartsWith(t, "Option<")
IsBoxed(t) == StartsWith(t, "Box<")
RenderedOptional(f) == IsOption(FieldType(f)) \/ StartsWith(FieldType(f), "Box<Option<")

\* A type with its Box and Option wrappers taken off.
Unboxed(t) == IF IsBoxed(t) THEN DropLast(DropFirst(t, 4), 1) ELSE t
Unoptioned(t) == IF IsOption(t) THEN DropLast(DropFirst(t, 7), 1) ELSE t
InnerType(t) == Unoptioned(Unboxed(t))

DerivesSerde(st) ==
  \E i \in 1..Len(st.derived) : st.derived[i] \in {"Serialize", "Deserialize"}

\* What the schema says of the member a field was rendered for.
SchemaShape(st) == service.shapes[st.shape]
SchemaMember(st, f) == SchemaShape(st).members[f.member]
SchemaRequired(st, f) == f.member \in SchemaShape(st).required

\* The optionality overrides as the exact triples (service, shape, field).
OptionalOverrides ==
  {<<"CodePipeline", "ActionRevision", "revision_change_id">>,
   <<"CodePipeline", "ActionRevision", "created">>,
   <<"Amazon Lex Runtime Service", "PostTextResponse", "slots">>}

UnderOverride(st, f) == <<service.name, st.name, FieldIdent(f)>> \in OptionalOverrides

\* ------------------------------------------------------------------ claims

\* C1: every field of a written struct that is not boxed as self-referential
\* is rendered optional exactly when the schema does not mark its member
\* required or the triple (service, shape, field) is one of the enumerated
\* overrides; a required member outside those triples is never optional.
C1_OptionalOnlyByFlagOrTriple ==
  \A st \in WrittenStructs : \A f \in FieldsOf(st) :
    ~IsBoxed(FieldType(f)) =>
      (RenderedOptional(f) <=> (~SchemaRequired(st, f) \/ UnderOverride(st, f)))

\* C2 as stated: a member literally named "type" is rendered under the
\* identifier aws_type (the fixed prefix added to "type"), and where the struct
\* derives Serialize or Deserialize its rename line carries "type".
C2_TypeUnderAwsPrefix ==
  \A st \in WrittenStructs : \A f \in FieldsOf(st) :
    f.member = "type" =>
      /\ FieldIdent(f) = "aws_type"
      /\ DerivesSerde(st) => f.lines[1] = "#[serde(rename=\"type\")]"

\* C2 as amended: a member literally named "type" is rendered under the
\* identifier type_ (generate_field_name's trailing underscore, never the aws_
\* prefix), the same whether the member is required, non-required or
\* self-referential; where the struct derives Serialize or Deserialize its
\* rename line carries "type" verbatim, and elsewhere it has no serde line.
C2_TypeEscapedWithUnderscore ==
  \A st \in WrittenStructs : \A f \in FieldsOf(st) :
    f.member = "type" =>
      /\ FieldIdent(f) = "type_"
      /\ IF DerivesSerde(st)
         THEN f.lines[1] = "#[serde(rename=\"type\")]"
         ELSE FieldAttrs(f) = <<>>

\* C2's case: a struct deriving a serde trait is written whose member "type"
\* is self-referential and not required, next to a state of the other kinds.
C2_Witness ==
  \E st \in WrittenStructs : \E f \in FieldsOf(st) :
    /\ f.member = "type"
    /\ DerivesSerde(st)
    /\ StartsWith(FieldType(f), "Box<Option<")
    /\ ~SchemaRequired(st, f)

\* C3: within one service no two distinct shape names resolve to the same
\* generated type name: two structs written for distinct shapes of the
\* service never bear the same name.
C3_TypeNamesInjective ==
  \A s, t \in WrittenStructs :
    s.shape # t.shape =>
      /\ mutate_type_name(service, s.shape) # mutate_type_name(service, t.shape)
      /\ s.name # t.name

\* The struct a field holds by value: its type, or the type inside Option,
\* when that is the name of a written struct; a Box, a Vec and a HashMap hold
\* their content on the heap.
HeldByValue(st) ==
  {u \in WrittenStructs :
     \E f \in FieldsOf(st) :
       ~IsBoxed(FieldType(f)) /\ Unoptioned(FieldType(f)) = u.name}

RECURSIVE HeldTransitively(_, _)
HeldTransitively(S, n) ==
  IF n = 0 THEN S
  ELSE HeldTransitively(S \cup UNION {HeldByValue(u) : u \in S}, n - 1)

\* C4: no written struct holds itself by value, directly or through other
\* written structs: every cycle of containment has a Box on it.
C4_EveryCycleBoxed ==
  \A st \in WrittenStructs :
    st \notin HeldTransitively(HeldByValue(st), Cardinality(WrittenStructs))

\* The host type get_rust_type maps a field's member to.
MappedType(st, f) ==
  get_rust_type(service, SchemaMember(st, f).shape,
                get_shape(service, SchemaMember(st, f).shape),
                SchemaMember(st, f).streaming, timestamp_type(P))

\* C5: a field of a written struct is wrapped in Box exactly when its member's
\* mapped host type equals the struct's generated name, as Box<T> when the
\* member is required and as Box<Option<T>> when it is not; every other field
\* (a Vec or a HashMap of the struct, a streaming member) has no Box.
C5_BoxedExactlyWhenSelfTyped ==
  \A st \in WrittenStructs : \A f \in FieldsOf(st) :
    IF MappedType(st, f) = st.name
    THEN FieldType(f) = (IF SchemaRequired(st, f)
                         THEN "Box<" \o st.name \o ">"
                         ELSE "Box<Option<" \o st.name \o ">>")
    ELSE ~Contains(FieldType(f), "Box<")

\* C5's case: one struct written with a required self-typed field boxed
\* directly, a non-required one boxed around the Option, and a list of the
\* struct's own type left unboxed.
C5_Witness ==
  \E st \in WrittenStructs :
    /\ \E f \in FieldsOf(st) :
         SchemaRequired(st, f) /\ FieldType(f) = "Box<" \o st.name \o ">"
    /\ \E f \in FieldsOf(st) :
         ~SchemaRequired(st, f) /\ FieldType(f) = "Box<Option<" \o st.name \o ">>"
    /\ \E f \in FieldsOf(st) : FieldType(f) = "Option<Vec<" \o st.name \o ">>"

\* The generated names of the structures the host type of a shape mentions
\* (through list elements and map keys and values).
RECURSIVE StructNamesIn(_)
StructNamesIn(shape_name) ==
  LET shape == service.shapes[shape_name]
  IN CASE shape.shape_type = "structure" -> {mutate_type_name(service, shape_name)}
       [] shape.shape_type = "list" -> StructNamesIn(shape.member)
       [] shape.shape_type = "map" -> StructNamesIn(shape.key) \cup StructNamesIn(shape.value)
       [] OTHER -> {}

\* A field whose member is not flagged streaming has no streaming alias in its
\* type: "Streaming" occurs in it only inside a structure's own generated name.
NoAliasUnlessFlagged(st, f) ==
  Contains(FieldType(f), "Streaming") =>
    \E n \in StructNamesIn(SchemaMember(st, f).shape) : Contains(n, "Streaming")

UnderSlotsOverride(st, f) ==
  <<service.name, st.name, FieldIdent(f)>>
    = <<"Amazon Lex Runtime Service", "PostTextResponse", "slots">>

\* C6 as stated: a field whose member is flagged streaming has the type
\* "Streaming" + shape name, bare or inside Option, whatever the kind of the
\* shape and whatever the service, shape and field names; a field whose
\* member is not flagged has no streaming alias in its type.
C6_StreamingAlwaysAlias ==
  \A st \in WrittenStructs : \A f \in FieldsOf(st) :
    IF SchemaMember(st, f).streaming
    THEN Unoptioned(FieldType(f)) = "Streaming" \o SchemaMember(st, f).shape
    ELSE NoAliasUnlessFlagged(st, f)

\* C6 as amended: a field whose member is flagged streaming has the type
\* "Streaming" + shape name whatever the kind of the shape, bare or inside
\* Option, and inside Box only when that alias is the enclosing struct's own
\* name, except the field under the slots override (Amazon Lex Runtime
\* Service, PostTextResponse, slots), whose type is the override's fixed text
\* whatever its flag; a field whose member is not flagged has no streaming
\* alias in its type.
C6_StreamingAliasButSlots ==
  \A st \in WrittenStructs : \A f \in FieldsOf(st) :
    IF UnderSlotsOverride(st, f) /\ MappedType(st, f) # st.name
    THEN FieldType(f) = "Option<::std::collections::HashMap<String, Option<String>>>"
    ELSE IF SchemaMember(st, f).streaming
    THEN /\ InnerType(FieldType(f)) = "Streaming" \o SchemaMember(st, f).shape
         /\ IsBoxed(FieldType(f)) => st.name = "Streaming" \o SchemaMember(st, f).shape
    ELSE NoAliasUnlessFlagged(st, f)

\* C6's case: a member flagged streaming that refers to a map is rendered
\* with the alias of the map's shape.
C6_Witness ==
  \E st \in WrittenStructs : \E f \in FieldsOf(st) :
    /\ SchemaMember(st, f).streaming
    /\ service.shapes[SchemaMember(st, f).shape].shape_type = "map"
    /\ FieldType(f) = "Option<Streaming" \o SchemaMember(st, f).shape \o ">"

\* The shapes a shape refers to, and the closure of a set of names under it.
RefsOf(n) ==
  IF n \in DOMAIN service.shapes
  THEN ({service.shapes[n].members[m].shape : m \in DOMAIN service.shapes[n].members}
        \cup {service.shapes[n].member, service.shapes[n].key, service.shapes[n].value})
       \ {None}
  ELSE {}

RECURSIVE ClosureOf(_)
ClosureOf(S) ==
  LET T == S \cup UNION {RefsOf(n) : n \in S}
  IN IF T = S THEN S ELSE ClosureOf(T)

\* Every operation's input, output and declared errors.
OperationShapes ==
  UNION {({service.operations[o].input, service.operations[o].output} \ {None})
         \cup SeqToSet(service.operations[o].errors) : o \in DOMAIN service.operations}

\* The structure shapes the claim says get a struct.
StructuresToGenerate ==
  {n \in ClosureOf(OperationShapes) \cap DOMAIN service.shapes :
     /\ service.shapes[n].shape_type = "structure"
     /\ ~service.shapes[n].exception \/ service.name = "Kinesis"}

\* The shapes of the written structs, in the order written.
StructShapesWritten ==
  LET structs == SelectSeq(writer, LAMBDA it : it.kind = "struct")
  IN [i \in 1..Len(structs) |-> structs[i].shape]

StrictlyAscending(q) == \A i \in 1..(Len(q) - 1) : StrLess(q[i], q[i + 1])

\* generate_types has returned Ok.
TypesWritten ==
  pc \in {"error_types", "trait_open", "method_signatures", "trait_close",
          "client_struct", "method_impls", "impl_close", "tests", "done"}

\* C7 as stated: the structs are written in ascending order of shape name,
\* one per shape, only for structure shapes in the closure of the operations'
\* inputs, outputs and errors that are not exception shapes (any, for
\* Kinesis), and once generate_types is over for every one of those.
C7_StructsAreTheClosure ==
  /\ StrictlyAscending(StructShapesWritten)
  /\ SeqToSet(StructShapesWritten) \subseteq StructuresToGenerate
  /\ TypesWritten => SeqToSet(StructShapesWritten) = StructuresToGenerate

\* C7 as amended: the same, but a structure shape whose generated type name
\* is "String" gets no struct.
C7_StructsAreTheClosureButString ==
  LET expected == {n \in StructuresToGenerate : mutate_type_name(service, n) # "String"}
  IN /\ StrictlyAscending(StructShapesWritten)
     /\ SeqToSet(StructShapesWritten) \subseteq expected
     /\ TypesWritten => SeqToSet(StructShapesWritten) = expected

\* C7's case: generate_types is over with a reachable exception shape left
\* out, a shape only that exception refers to written, an unreachable
\* structure left out and several structs written.
C7_Witness ==
  /\ TypesWritten
  /\ "NotFound" \in ClosureOf(OperationShapes)
  /\ "NotFound" \notin SeqToSet(StructShapesWritten)
  /\ "Detail" \in SeqToSet(StructShapesWritten)
  /\ "Unused" \in DOMAIN service.shapes
  /\ "Unused" \notin SeqToSet(StructShapesWritten)
  /\ Len(StructShapesWritten) >= 3

\* C8: when generate_source has aborted, by a panic or by returning a write
\* error, nothing has been written to the writer.
C8_NothingWrittenOnAbort ==
  result \in {"Err", "panic"} => writer = <<>>

\* The sections of the written text, in order.
SectionsWritten == [i \in 1..Len(writer) |-> writer[i].sec]

\* The sections around the type definitions in the order of the claim: the
\* preamble, the prelude, the service error type, the client interface (the
\* trait's opening, the method signatures, its closing), the client
\* implementation (the struct, the method bodies, the closing), the tests.
SectionOrder ==
  <<"preamble", "prelude", "error_types",
    "trait_open", "method_signatures", "trait_close",
    "client_struct", "method_impls", "impl_close", "tests">>

SectionsInOrder ==
  LET fixed == SelectSeq(SectionsWritten, LAMBDA sec : sec # "types")
  IN /\ Len(fixed) <= Len(SectionOrder)
     /\ fixed = SubSeq(SectionOrder, 1, Len(fixed))
     /\ \A i \in 1..Len(writer) :
          writer[i].sec = "types" =>
            /\ \E j \in 1..(i - 1) : writer[j].sec = "prelude"
            /\ \A j \in 1..(i - 1) : writer[j].sec # "error_types"
     /\ result = "Ok" <=> pc = "done"
     /\ result = "Ok" => fixed = SectionOrder

\* C9: the sections are written in the order preamble, prelude, type
\* definitions, service error type, client interface, client implementation,
\* tests, none twice and none before the one before it; a run that completes
\* has written every one of them; once a step has returned an error (or
\* panicked) nothing more is written.
C9_SectionsOnceInOrder ==
  /\ []SectionsInOrder
  /\ [][result # None => writer' = writer /\ result' = result]_vars

\* C9's case: a run has completed with type definitions written.
C9_Witness ==
  /\ result = "Ok"
  /\ \E i \in 1..Len(writer) : writer[i].kind = "struct"
  /\ \E i \in 1..Len(writer) : writer[i].kind = "serializer"

\* C10: two runs of generate_types over the same Service Definition write
\* the same type definitions, with the same fields and text, in the same
\* order, whatever the order each run visited the operations and shapes in.
C10_TwoRunsWriteTheSame ==
  run = 3 => emitted[1] = emitted[2]

\* C10's case: both runs are over, they inserted the shapes in different
\* orders, and several type definitions were written.
C10_Witness ==
  /\ run = 3
  /\ orders[1] # orders[2]
  /\ Len(emitted[1]) >= 3

\* C11: in every written struct that derives Serialize or Deserialize, a
\* field carries the omit-when-absent line (serde skip_serializing_if
\* Option::is_none) exactly when it is rendered optional, as Option<...> or
\* Box<Option<...>>, whether by the schema or by an override.
C11_SkipExactlyWhenOptional ==
  \A st \in WrittenStructs :
    DerivesSerde(st) =>
      \A f \in FieldsOf(st) :
        (SerdeSkip \in SeqToSet(FieldAttrs(f))) <=> RenderedOptional(f)

\* The aliases written so far that declare the name n.
AliasesNamed(n) ==
  {i \in 1..Len(writer) : writer[i].kind = "alias" /\ writer[i].name = n}

\* The alias name get_rust_type produces for a member flagged streaming.
AliasUsed(st, f) ==
  get_rust_type(service, SchemaMember(st, f).shape,
                get_shape(service, SchemaMember(st, f).shape),
                TRUE, timestamp_type(P))

\* The alias name generate_types writes for the shape the member refers to.
AliasDeclared(st, f) ==
  mutate_type_name_for_streaming(mutate_type_name(service, SchemaMember(st, f).shape))

\* C12: for every streaming member of a written struct the alias name
\* get_rust_type produces ("Streaming" + the raw shape name) is the alias name
\* generate_types writes for the member's shape ("Streaming" + the mutated
\* name), and once generate_types is over that shape's alias has been written
\* and the name is declared by exactly one written alias.
C12_EveryAliasDeclaredOnce ==
  \A st \in WrittenStructs : \A f \in FieldsOf(st) :
    SchemaMember(st, f).streaming =>
      /\ AliasUsed(st, f) = AliasDeclared(st, f)
      /\ TypesWritten =>
            /\ \E i \in 1..Len(writer) :
                 writer[i].kind = "alias" /\ writer[i].shape = SchemaMember(st, f).shape
            /\ Cardinality(AliasesNamed(AliasUsed(st, f))) = 1

====
